---- MODULE Spec2Model ----
\* Model of the use-sui-passkey React hook (src/src/index.ts): the passkey
\* session adapter, its storage slot, and the asynchronous calls in flight.
EXTENDS Integers, Sequences, FiniteSets, TLC

\* ------------------------------------------------------------------ bounds
\* Total number of async calls (create / recoverTwoStep / sign*) started.
MaxCalls == 2
\* Longest candidate list one sign-and-recover ceremony returns.
MaxCand == 2

\* --------------------------------------------------------------- constants
DEFAULT_STORAGE_KEY == "sui:passkey:pubkey"
StorageKeys == {DEFAULT_STORAGE_KEY}

Instances == {1, 2}

\* null for byte-valued state (keypair, address, a storage slot)
NULL == <<-1>>
\* null for the error state
NoError == "null"
ErrUnavailable == "Passkey not available in this environment."
ErrNoKeypair == "No passkey keypair. Call create() or recoverTwoStep() first."
ErrAmbiguous == "Could not determine a unique public key from signatures."
\* what a rejected platform ceremony throws (cancelled / platform error)
ErrCeremony == "NotAllowedError"

\* raw public-key bytes the platform credential can yield
pkX == <<2, 17>>
pkY == <<3, 17>>
pkZ == <<2, 250>>
PublicKeys == {pkX, pkY, pkZ}
\* the keys of the passkeys the registration ceremony may create
CreatedKeys == {pkX, pkZ}

\* ------------------------------------------------------------ pure helpers
Pad == 64

\* toBase64 of @mysten/sui/utils: standard base64 with '=' padding; a
\* character is its index in the base64 alphabet, Pad is '='.
RECURSIVE toBase64(_)
toBase64(b) ==
  IF Len(b) = 0 THEN <<>>
  ELSE IF Len(b) = 1 THEN << b[1] \div 4, (b[1] % 4) * 16, Pad, Pad >>
  ELSE IF Len(b) = 2 THEN
    << b[1] \div 4, (b[1] % 4) * 16 + (b[2] \div 16), (b[2] % 16) * 4, Pad >>
  ELSE << b[1] \div 4, (b[1] % 4) * 16 + (b[2] \div 16),
          (b[2] % 16) * 4 + (b[3] \div 64), b[3] % 64 >>
       \o toBase64(SubSeq(b, 4, Len(b)))

\* the sextets of a string without its trailing padding
StripPad(s) ==
  IF Len(s) % 4 = 0 /\ Len(s) >= 2 /\ s[Len(s)] = Pad /\ s[Len(s) - 1] = Pad
    THEN SubSeq(s, 1, Len(s) - 2)
  ELSE IF Len(s) % 4 = 0 /\ Len(s) >= 1 /\ s[Len(s)] = Pad
    THEN SubSeq(s, 1, Len(s) - 1)
  ELSE s

RECURSIVE DecodeSextets(_)
DecodeSextets(s) ==
  IF Len(s) <= 1 THEN <<>>
  ELSE IF Len(s) = 2 THEN << s[1] * 4 + (s[2] \div 16) >>
  ELSE IF Len(s) = 3 THEN
    << s[1] * 4 + (s[2] \div 16), (s[2] % 16) * 16 + (s[3] \div 4) >>
  ELSE << s[1] * 4 + (s[2] \div 16), (s[2] % 16) * 16 + (s[3] \div 4),
          (s[3] % 4) * 64 + s[4] >>
       \o DecodeSextets(SubSeq(s, 5, Len(s)))

\* fromBase64 of @mysten/sui/utils (atob): ok = FALSE when it throws
fromBase64(s) ==
  LET d == StripPad(s) IN
  IF Len(d) % 4 = 1 \/ \E k \in 1..Len(d) : d[k] \notin 0..63
    THEN [ok |-> FALSE, bytes |-> <<>>]
    ELSE [ok |-> TRUE, bytes |-> DecodeSextets(d)]

\* TextEncoder.encode of one code point below 2048 (UTF-8)
Utf8(cp) == IF cp < 128 THEN <<cp>> ELSE << 192 + (cp \div 64), 128 + (cp % 64) >>

RECURSIVE Utf8Seq(_)
Utf8Seq(s) == IF Len(s) = 0 THEN <<>> ELSE Utf8(Head(s)) \o Utf8Seq(Tail(s))

\* a message argument: a string (code points) or a Uint8Array (bytes)
Str(v) == [t |-> "string", v |-> v]
U8(v) == [t |-> "Uint8Array", v |-> v]
Undefined == [t |-> "undefined", v |-> <<>>]

toBytes(input) == IF input.t = "Uint8Array" THEN input.v ELSE Utf8Seq(input.v)

\* PublicKey.toSuiAddress(): a hash of the scheme flag and the raw bytes,
\* modelled as the (injective) preimage
PASSKEY_FLAG == 6
toSuiAddress(pk) == <<PASSKEY_FLAG>> \o pk

\* the SDK accepts raw bytes as a passkey public key by their length
IsPublicKey(bytes) == Len(bytes) = Len(pkX)

\* position of the first element of b that satisfies aSet.has, 0 when none
RECURSIVE FindIndex(_, _, _)
FindIndex(b, aSet, k) ==
  IF k > Len(b) THEN 0
  ELSE IF toBase64(b[k]) \in aSet THEN k
  ELSE FindIndex(b, aSet, k + 1)

\* mutant: the first key of b is taken without looking it up in a
findFirstOfB(a, b) == IF Len(b) = 0 THEN NULL ELSE b[1]

findCommonPublicKey(a, b) ==
  LET aSet == { toBase64(a[k]) : k \in 1..Len(a) }
      m == FindIndex(b, aSet, 1)
  IN IF m = 0 THEN NULL ELSE b[m]

\* ------------------------------------------------------------------- state
VARIABLES
  env,        \* the host: window present, PublicKeyCredential present, storage faults
  storage,    \* the key-value backend: storage key -> stored string or NULL
  mounted,    \* instance -> the hook has rendered and its mount effect has run
  provider,   \* instance -> a BrowserPasskeyProvider was constructed
  opts,       \* instance -> effective options (storage, storageKey, autoLoad)
  keypair,    \* instance -> public-key bytes of the held PasskeyKeypair, or NULL
  address,    \* instance -> derived address, or NULL
  error,      \* instance -> error state
  loading,    \* instance -> loading flag
  rehydrated, \* instance -> the mount effect set a keypair
  calls,      \* the async calls started so far, in start order
  last        \* the step just taken: which handler ran and its storage access

vars == <<env, storage, mounted, provider, opts, keypair, address, error,
          loading, rehydrated, calls, last>>

isBrowser == env.browser
hasWebAuthn == isBrowser /\ env.pkc
supported == hasWebAuthn

\* option values a host can pass to useSuiPasskey
Options ==
  [storage : {"undefined", "custom"},
   storageKey : {"undefined"},
   autoLoad : {"undefined", "false"}]

\* the destructuring defaults of useSuiPasskey
EffectiveOptions(o) ==
  [storage |-> (o.storage # "undefined") \/ isBrowser,
   storageKey |-> IF o.storageKey = "undefined" THEN DEFAULT_STORAGE_KEY
                  ELSE o.storageKey,
   autoLoad |-> o.autoLoad # "false"]

\* strings a storage slot can hold before any instance mounts
InitialStored ==
  {NULL, <<>>, <<65>>, toBase64(<<7>>), toBase64(pkZ)}

\* outcomes of a storage operation: it can throw only on a faulty backend
StorageOutcomes == IF env.faulty THEN BOOLEAN ELSE {TRUE}

HelloWorld1 == Str(<<72, 101, 108, 108, 111, 32, 119, 111, 114, 108, 100, 33>>)
HelloWorld2 ==
  Str(<<72, 101, 108, 108, 111, 32, 119, 111, 114, 108, 100, 32, 50, 33>>)

RecoverArgs == { <<Undefined, Undefined>>, <<Str(<<72, 233>>), U8(<<1>>)>> }
SignMessages == { Str(<<72, 233>>), U8(<<72>>) }
TxBytes == { U8(<<0, 1>>) }

\* a defaulted parameter (m1 = 'Hello world!', m2 = 'Hello world 2!')
Default(m, d) == IF m.t = "undefined" THEN d ELSE m

RECURSIVE SeqsUpTo(_, _)
SeqsUpTo(S, n) ==
  IF n = 0 THEN { <<>> }
  ELSE LET shorter == SeqsUpTo(S, n - 1)
       IN shorter \cup { Append(q, x) : q \in shorter, x \in S }

\* candidate lists a sign-and-recover ceremony can return
CandLists == SeqsUpTo(PublicKeys, MaxCand)

\* candidate lists of the interleaving specifications (SpecRecover uses the
\* full CandLists)
FewCandLists == { <<pkX, pkY>>, <<pkY, pkZ>>, <<pkZ>> }

\* the frame of an async call: its arguments and locals while it runs, and
\* how its promise settled
NewCall(i, op, args) ==
  [inst |-> i, op |-> op, args |-> args, pc |-> "done",
   possible1 |-> <<>>, kp |-> NULL,
   result |-> "pending", err |-> NoError, ceremonies |-> 0]

\* a call that has returned or thrown: the promise's state stays, the locals
\* are gone
Settled(r, result, e) ==
  [r EXCEPT !.pc = "done", !.result = result, !.err = e,
            !.args = <<>>, !.possible1 = <<>>, !.kp = NULL]

\* the message bytes call record r hands to its k-th ceremony
Signed(r, k) ==
  IF r.op = "recoverTwoStep"
    THEN toBytes(Default(r.args[k], IF k = 1 THEN HelloWorld1 ELSE HelloWorld2))
  ELSE IF r.op = "signPersonalMessage" THEN toBytes(r.args[1])
  ELSE r.args[1].v

\* What a step did: the handler act of instance i ran for call c (0 when
\* none). sop / threw: its storage operation ("none" when none) and whether
\* that threw; possible1 / possible2: the candidate lists a recoverTwoStep
\* call has got from its ceremonies by the end of the step; ret: the keypair
\* the call returned (NULL when none); signature: the signature it returned.
Did(act, i, c) ==
  [act |-> act, inst |-> i, call |-> c, sop |-> "none", threw |-> FALSE,
   possible1 |-> <<>>, possible2 |-> <<>>, ret |-> NULL, signature |-> <<>>]

Init ==
  /\ env \in { e \in [browser : BOOLEAN, pkc : BOOLEAN, faulty : BOOLEAN] :
                 e.pkc => e.browser }
  /\ storage \in [StorageKeys -> InitialStored]
  /\ mounted = [i \in Instances |-> FALSE]
  /\ provider = [i \in Instances |-> FALSE]
  /\ opts = [i \in Instances |-> EffectiveOptions(
               [storage |-> "undefined", storageKey |-> "undefined",
                autoLoad |-> "undefined"])]
  /\ keypair = [i \in Instances |-> NULL]
  /\ address = [i \in Instances |-> NULL]
  /\ error = [i \in Instances |-> NoError]
  /\ loading = [i \in Instances |-> FALSE]
  /\ rehydrated = [i \in Instances |-> FALSE]
  /\ calls = <<>>
  /\ last = Did("init", 0, 0)

\* --------------------------------------------------------------- the hook
\* mutant: the provider is constructed without the `supported` check
MakeProviderUnchecked(ctorThrows) == ~ctorThrows

\* useMemo provider: null when unsupported or when the constructor throws
MakeProvider(ctorThrows) == supported /\ ~ctorThrows

\* mutant: the mount effect without its `!provider` check
RehydrateWithoutProvider(prov, o, getOk, throwAt) ==
  LET none == [keypair |-> NULL, address |-> NULL, read |-> FALSE, threw |-> FALSE]
      skip == [none EXCEPT !.read = TRUE]
      b64 == storage[o.storageKey]
      dec == fromBase64(b64)
  IN IF ~o.storage \/ ~o.autoLoad THEN none
     ELSE IF ~getOk THEN [skip EXCEPT !.threw = TRUE]
     ELSE IF b64 = NULL \/ b64 = <<>> THEN skip
     ELSE IF ~dec.ok THEN skip
     ELSE IF IsPublicKey(dec.bytes)
       THEN [skip EXCEPT !.keypair = dec.bytes,
                         !.address = toSuiAddress(dec.bytes)]
     ELSE IF throwAt = "constructor" THEN skip
     ELSE [skip EXCEPT !.keypair = dec.bytes]

\* mutant: the stored string is used as the key bytes without fromBase64
RehydrateRaw(prov, o, getOk, throwAt) ==
  LET none == [keypair |-> NULL, address |-> NULL, read |-> FALSE, threw |-> FALSE]
      skip == [none EXCEPT !.read = TRUE]
      b64 == storage[o.storageKey]
  IN IF ~prov \/ ~o.storage \/ ~o.autoLoad THEN none
     ELSE IF ~getOk THEN [skip EXCEPT !.threw = TRUE]
     ELSE IF b64 = NULL \/ b64 = <<>> THEN skip
     ELSE IF IsPublicKey(b64)
       THEN [skip EXCEPT !.keypair = b64, !.address = toSuiAddress(b64)]
     ELSE IF throwAt = "constructor" THEN skip
     ELSE [skip EXCEPT !.keypair = b64]

\* The mount effect. getOk: storage.getItem does not throw; throwAt: where
\* the SDK rejects bytes that are not a public key.
Rehydrate(prov, o, getOk, throwAt) ==
  LET none == [keypair |-> NULL, address |-> NULL, read |-> FALSE, threw |-> FALSE]
      skip == [none EXCEPT !.read = TRUE]
      b64 == storage[o.storageKey]
      dec == fromBase64(b64)
  IN IF ~prov \/ ~o.storage \/ ~o.autoLoad THEN none
     ELSE IF ~getOk THEN [skip EXCEPT !.threw = TRUE]
     ELSE IF b64 = NULL \/ b64 = <<>> THEN skip
     ELSE IF ~dec.ok THEN skip
     ELSE IF IsPublicKey(dec.bytes)
       THEN [skip EXCEPT !.keypair = dec.bytes,
                         !.address = toSuiAddress(dec.bytes)]
     ELSE IF throwAt = "constructor" THEN skip
     ELSE [skip EXCEPT !.keypair = dec.bytes]

\* mutant: a failure of the mount-time storage read is put in the error state
MountSurfaces(i, o, ctorThrows, getOk, throwAt) ==
  /\ ~mounted[i]
  /\ LET eo == EffectiveOptions(o)
         prov == MakeProvider(ctorThrows)
         r == Rehydrate(prov, eo, getOk, throwAt)
     IN /\ mounted' = [mounted EXCEPT ![i] = TRUE]
        /\ provider' = [provider EXCEPT ![i] = prov]
        /\ opts' = [opts EXCEPT ![i] = eo]
        /\ keypair' = [keypair EXCEPT ![i] = r.keypair]
        /\ address' = [address EXCEPT ![i] = r.address]
        /\ rehydrated' = [rehydrated EXCEPT ![i] = r.keypair # NULL]
        /\ error' = [error EXCEPT ![i] = IF r.threw THEN ErrCeremony ELSE NoError]
        /\ last' = [Did("mount", i, 0) EXCEPT
                      !.sop = IF r.read THEN "getItem" ELSE "none",
                      !.threw = r.threw]
  /\ UNCHANGED <<env, storage, loading, calls>>

\* first render of useSuiPasskey(options) and its mount effect
Mount(i, o, ctorThrows, getOk, throwAt) ==
  /\ ~mounted[i]
  /\ LET eo == EffectiveOptions(o)
         prov == MakeProvider(ctorThrows)
         r == Rehydrate(prov, eo, getOk, throwAt)
     IN /\ mounted' = [mounted EXCEPT ![i] = TRUE]
        /\ provider' = [provider EXCEPT ![i] = prov]
        /\ opts' = [opts EXCEPT ![i] = eo]
        /\ keypair' = [keypair EXCEPT ![i] = r.keypair]
        /\ address' = [address EXCEPT ![i] = r.address]
        /\ rehydrated' = [rehydrated EXCEPT ![i] = r.keypair # NULL]
        /\ last' = [Did("mount", i, 0) EXCEPT
                      !.sop = IF r.read THEN "getItem" ELSE "none",
                      !.threw = r.threw]
  /\ UNCHANGED <<env, storage, error, loading, calls>>

\* mutant: the raw bytes are stored, not their base64 encoding
persistRaw(i, kp, setOk) ==
  IF ~opts[i].storage THEN [storage |-> storage, sop |-> "none", threw |-> FALSE]
  ELSE IF ~setOk THEN [storage |-> storage, sop |-> "setItem", threw |-> TRUE]
  ELSE [storage |-> [storage EXCEPT ![opts[i].storageKey] = kp],
        sop |-> "setItem", threw |-> FALSE]

\* persist(kp): the storage after the call, its storage operation and
\* whether that threw (setOk: storage.setItem does not throw)
persist(i, kp, setOk) ==
  IF ~opts[i].storage THEN [storage |-> storage, sop |-> "none", threw |-> FALSE]
  ELSE IF ~setOk THEN [storage |-> storage, sop |-> "setItem", threw |-> TRUE]
  ELSE [storage |-> [storage EXCEPT ![opts[i].storageKey] = toBase64(kp)],
        sop |-> "setItem", threw |-> FALSE]

CanStart(i) == mounted[i] /\ Len(calls) < MaxCalls
Pending(c) == c \in DOMAIN calls /\ calls[c].result = "pending"

\* mutant: create() without setError(null)
CreateStartKeepsError(i) ==
  /\ CanStart(i)
  /\ IF ~provider[i]
       THEN /\ calls' = Append(calls,
                 Settled(NewCall(i, "create", <<>>), "rejected", ErrUnavailable))
            /\ UNCHANGED loading
       ELSE /\ loading' = [loading EXCEPT ![i] = TRUE]
            /\ calls' = Append(calls, [NewCall(i, "create", <<>>) EXCEPT
                          !.pc = "ceremony", !.ceremonies = 1])
  /\ last' = Did("createStart", i, Len(calls) + 1)
  /\ UNCHANGED <<env, storage, mounted, provider, opts, keypair, address,
                 error, rehydrated>>

\* mutant: create() without setLoading(true)
CreateStartNoLoading(i) ==
  /\ CanStart(i)
  /\ IF ~provider[i]
       THEN /\ calls' = Append(calls,
                 Settled(NewCall(i, "create", <<>>), "rejected", ErrUnavailable))
            /\ UNCHANGED error
       ELSE /\ error' = [error EXCEPT ![i] = NoError]
            /\ calls' = Append(calls, [NewCall(i, "create", <<>>) EXCEPT
                          !.pc = "ceremony", !.ceremonies = 1])
  /\ last' = Did("createStart", i, Len(calls) + 1)
  /\ UNCHANGED <<env, storage, mounted, provider, opts, keypair, address,
                 loading, rehydrated>>

\* create(): up to the await of the registration ceremony
CreateStart(i) ==
  /\ CanStart(i)
  /\ IF ~provider[i]
       THEN /\ calls' = Append(calls,
                 Settled(NewCall(i, "create", <<>>), "rejected", ErrUnavailable))
            /\ UNCHANGED <<loading, error>>
       ELSE /\ loading' = [loading EXCEPT ![i] = TRUE]
            /\ error' = [error EXCEPT ![i] = NoError]
            /\ calls' = Append(calls, [NewCall(i, "create", <<>>) EXCEPT
                          !.pc = "ceremony", !.ceremonies = 1])
  /\ last' = Did("createStart", i, Len(calls) + 1)
  /\ UNCHANGED <<env, storage, mounted, provider, opts, keypair, address,
                 rehydrated>>

\* mutant: the public key is persisted only while the storage key is absent
EstablishWriteOnce(act, c, possible2, kp, setOk) ==
  LET i == calls[c].inst
      p == IF storage[opts[i].storageKey] = NULL
             THEN persist(i, kp, setOk)
             ELSE [storage |-> storage, sop |-> "none", threw |-> FALSE]
  IN /\ keypair' = [keypair EXCEPT ![i] = kp]
     /\ address' = [address EXCEPT ![i] = toSuiAddress(kp)]
     /\ storage' = p.storage
     /\ loading' = [loading EXCEPT ![i] = FALSE]
     /\ calls' = [calls EXCEPT ![c] = Settled(@, "resolved", NoError)]
     /\ last' = [Did(act, i, c) EXCEPT !.sop = p.sop, !.threw = p.threw,
                                       !.possible1 = calls[c].possible1,
                                       !.possible2 = possible2, !.ret = kp]
     /\ UNCHANGED <<env, mounted, provider, opts, error, rehydrated>>

\* mutant: the success path without the finally block's setLoading(false)
EstablishKeepsLoading(act, c, possible2, kp, setOk) ==
  LET i == calls[c].inst
      p == persist(i, kp, setOk)
  IN /\ keypair' = [keypair EXCEPT ![i] = kp]
     /\ address' = [address EXCEPT ![i] = toSuiAddress(kp)]
     /\ storage' = p.storage
     /\ calls' = [calls EXCEPT ![c] = Settled(@, "resolved", NoError)]
     /\ last' = [Did(act, i, c) EXCEPT !.sop = p.sop, !.threw = p.threw,
                                       !.possible1 = calls[c].possible1,
                                       !.possible2 = possible2, !.ret = kp]
     /\ UNCHANGED <<env, mounted, provider, opts, error, loading, rehydrated>>

\* mutant: a throwing storage write rejects the call
EstablishOrThrow(act, c, possible2, kp, setOk) ==
  LET i == calls[c].inst
      p == persist(i, kp, setOk)
  IN /\ keypair' = [keypair EXCEPT ![i] = kp]
     /\ address' = [address EXCEPT ![i] = toSuiAddress(kp)]
     /\ storage' = p.storage
     /\ loading' = [loading EXCEPT ![i] = FALSE]
     /\ error' = [error EXCEPT ![i] = IF p.threw THEN ErrCeremony ELSE @]
     /\ calls' = [calls EXCEPT ![c] =
                    IF p.threw THEN Settled(@, "rejected", ErrCeremony)
                    ELSE Settled(@, "resolved", NoError)]
     /\ last' = [Did(act, i, c) EXCEPT !.sop = p.sop, !.threw = p.threw,
                                       !.possible1 = calls[c].possible1,
                                       !.possible2 = possible2, !.ret = kp]
     /\ UNCHANGED <<env, mounted, provider, opts, rehydrated>>

\* the success path shared by create and recoverTwoStep once the key kp is
\* known; possible2: the candidates of the second ceremony (recoverTwoStep)
Establish(act, c, possible2, kp, setOk) ==
  LET i == calls[c].inst
      p == persist(i, kp, setOk)
  IN /\ keypair' = [keypair EXCEPT ![i] = kp]
     /\ address' = [address EXCEPT ![i] = toSuiAddress(kp)]
     /\ storage' = p.storage
     /\ loading' = [loading EXCEPT ![i] = FALSE]
     /\ calls' = [calls EXCEPT ![c] = Settled(@, "resolved", NoError)]
     /\ last' = [Did(act, i, c) EXCEPT !.sop = p.sop, !.threw = p.threw,
                                       !.possible1 = calls[c].possible1,
                                       !.possible2 = possible2, !.ret = kp]
     /\ UNCHANGED <<env, mounted, provider, opts, error, rehydrated>>

\* mutant: the catch path without the finally block's setLoading(false)
FailKeepsLoading(act, c, possible2, e) ==
  LET i == calls[c].inst
  IN /\ error' = [error EXCEPT ![i] = e]
     /\ calls' = [calls EXCEPT ![c] = Settled(@, "rejected", e)]
     /\ last' = [Did(act, i, c) EXCEPT !.possible1 = calls[c].possible1,
                                       !.possible2 = possible2]
     /\ UNCHANGED <<env, storage, mounted, provider, opts, keypair, address,
                    loading, rehydrated>>

\* mutant: the catch path also drops the session held so far
FailDropsSession(act, c, possible2, e) ==
  LET i == calls[c].inst
  IN /\ error' = [error EXCEPT ![i] = e]
     /\ loading' = [loading EXCEPT ![i] = FALSE]
     /\ keypair' = [keypair EXCEPT ![i] = NULL]
     /\ address' = [address EXCEPT ![i] = NULL]
     /\ calls' = [calls EXCEPT ![c] = Settled(@, "rejected", e)]
     /\ last' = [Did(act, i, c) EXCEPT !.possible1 = calls[c].possible1,
                                       !.possible2 = possible2]
     /\ UNCHANGED <<env, storage, mounted, provider, opts, rehydrated>>

\* the catch / finally path shared by create and recoverTwoStep
Fail(act, c, possible2, e) ==
  LET i == calls[c].inst
  IN /\ error' = [error EXCEPT ![i] = e]
     /\ loading' = [loading EXCEPT ![i] = FALSE]
     /\ calls' = [calls EXCEPT ![c] = Settled(@, "rejected", e)]
     /\ last' = [Did(act, i, c) EXCEPT !.possible1 = calls[c].possible1,
                                       !.possible2 = possible2]
     /\ UNCHANGED <<env, storage, mounted, provider, opts, keypair, address,
                    rehydrated>>

\* create(): the ceremony yields a keypair
CreateFulfilled(c, pk, setOk) ==
  /\ Pending(c) /\ calls[c].op = "create"
  /\ Establish("createFulfilled", c, <<>>, pk, setOk)

\* create(): the ceremony rejects
CreateRejected(c) ==
  /\ Pending(c) /\ calls[c].op = "create"
  /\ Fail("createRejected", c, <<>>, ErrCeremony)

\* mutant: recoverTwoStep starts both sign-and-recover ceremonies at once
RecoverStartBoth(i, args) ==
  /\ CanStart(i)
  /\ IF ~provider[i]
       THEN /\ calls' = Append(calls,
                 Settled(NewCall(i, "recoverTwoStep", args), "rejected",
                         ErrUnavailable))
            /\ UNCHANGED <<loading, error>>
       ELSE /\ loading' = [loading EXCEPT ![i] = TRUE]
            /\ error' = [error EXCEPT ![i] = NoError]
            /\ calls' = Append(calls, [NewCall(i, "recoverTwoStep", args) EXCEPT
                          !.pc = "ceremony", !.ceremonies = 2])
  /\ last' = Did("recoverStart", i, Len(calls) + 1)
  /\ UNCHANGED <<env, storage, mounted, provider, opts, keypair, address,
                 rehydrated>>

\* recoverTwoStep(m1, m2): up to the await of the first sign-and-recover
RecoverStart(i, args) ==
  /\ CanStart(i)
  /\ IF ~provider[i]
       THEN /\ calls' = Append(calls,
                 Settled(NewCall(i, "recoverTwoStep", args), "rejected",
                         ErrUnavailable))
            /\ UNCHANGED <<loading, error>>
       ELSE /\ loading' = [loading EXCEPT ![i] = TRUE]
            /\ error' = [error EXCEPT ![i] = NoError]
            /\ calls' = Append(calls, [NewCall(i, "recoverTwoStep", args) EXCEPT
                          !.pc = "ceremony", !.ceremonies = 1])
  /\ last' = Did("recoverStart", i, Len(calls) + 1)
  /\ UNCHANGED <<env, storage, mounted, provider, opts, keypair, address,
                 rehydrated>>

\* recoverTwoStep: the first ceremony yields possible1, the second is started
RecoverFirst(c, cand) ==
  /\ Pending(c) /\ calls[c].op = "recoverTwoStep" /\ calls[c].pc = "ceremony"
  /\ calls' = [calls EXCEPT ![c] = [@ EXCEPT
                 !.pc = "ceremony2", !.possible1 = cand, !.ceremonies = 2]]
  /\ last' = [Did("recoverFirst", calls[c].inst, c) EXCEPT !.possible1 = cand]
  /\ UNCHANGED <<env, storage, mounted, provider, opts, keypair, address,
                 error, loading, rehydrated>>

\* recoverTwoStep: the second ceremony yields possible2; intersect and finish
RecoverSecond(c, cand, setOk) ==
  /\ Pending(c) /\ calls[c].op = "recoverTwoStep" /\ calls[c].pc = "ceremony2"
  /\ LET common == findCommonPublicKey(calls[c].possible1, cand)
     IN IF common = NULL
          THEN Fail("recoverSecond", c, cand, ErrAmbiguous)
          ELSE Establish("recoverSecond", c, cand, common, setOk)

\* recoverTwoStep: the ceremony being awaited rejects
RecoverRejected(c) ==
  /\ Pending(c) /\ calls[c].op = "recoverTwoStep"
  /\ Fail("recoverRejected", c, <<>>, ErrCeremony)

\* mutant: sign* without the `if (!keypair) throw` guard
SignStartUnguarded(i, op, msg) ==
  /\ CanStart(i)
  /\ calls' = Append(calls, [NewCall(i, op, <<msg>>) EXCEPT
                 !.pc = "ceremony", !.ceremonies = 1, !.kp = keypair[i]])
  /\ last' = Did("signStart", i, Len(calls) + 1)
  /\ UNCHANGED <<env, storage, mounted, provider, opts, keypair, address,
                 error, loading, rehydrated>>

\* signPersonalMessage(message) / signTransaction(txBytes): up to the await
SignStart(i, op, msg) ==
  /\ CanStart(i)
  /\ IF keypair[i] = NULL
       THEN calls' = Append(calls,
              Settled(NewCall(i, op, <<msg>>), "rejected", ErrNoKeypair))
       ELSE calls' = Append(calls, [NewCall(i, op, <<msg>>) EXCEPT
                       !.pc = "ceremony", !.ceremonies = 1, !.kp = keypair[i]])
  /\ last' = Did("signStart", i, Len(calls) + 1)
  /\ UNCHANGED <<env, storage, mounted, provider, opts, keypair, address,
                 error, loading, rehydrated>>

IsSign(r) == r.op \in {"signPersonalMessage", "signTransaction"}

\* the signature of a sign call: the keypair captured at the call signs the
\* message bytes
Signature(r) == toBase64(r.kp \o Signed(r, 1))

\* sign*: the keypair's signing ceremony yields a signature
SignFulfilled(c) ==
  /\ Pending(c) /\ IsSign(calls[c])
  /\ calls' = [calls EXCEPT ![c] = Settled(@, "resolved", NoError)]
  /\ last' = [Did("signFulfilled", calls[c].inst, c) EXCEPT
                !.signature = Signature(calls[c])]
  /\ UNCHANGED <<env, storage, mounted, provider, opts, keypair, address,
                 error, loading, rehydrated>>

\* mutant: a rejected signing ceremony is put in the error state
SignRejectedRecords(c) ==
  /\ Pending(c) /\ IsSign(calls[c])
  /\ calls' = [calls EXCEPT ![c] = Settled(@, "rejected", ErrCeremony)]
  /\ error' = [error EXCEPT ![calls[c].inst] = ErrCeremony]
  /\ last' = Did("signRejected", calls[c].inst, c)
  /\ UNCHANGED <<env, storage, mounted, provider, opts, keypair, address,
                 loading, rehydrated>>

\* sign*: the signing ceremony rejects
SignRejected(c) ==
  /\ Pending(c) /\ IsSign(calls[c])
  /\ calls' = [calls EXCEPT ![c] = Settled(@, "rejected", ErrCeremony)]
  /\ last' = Did("signRejected", calls[c].inst, c)
  /\ UNCHANGED <<env, storage, mounted, provider, opts, keypair, address,
                 error, loading, rehydrated>>

\* mutant: clear() also cancels the create / recoverTwoStep calls in flight
clearCancels(i, removeOk) ==
  /\ mounted[i]
  /\ storage' = IF opts[i].storage /\ removeOk
                  THEN [storage EXCEPT ![opts[i].storageKey] = NULL]
                  ELSE storage
  /\ keypair' = [keypair EXCEPT ![i] = NULL]
  /\ address' = [address EXCEPT ![i] = NULL]
  /\ error' = [error EXCEPT ![i] = NoError]
  /\ loading' = [loading EXCEPT ![i] = FALSE]
  /\ calls' = [c \in DOMAIN calls |->
                 IF calls[c].inst = i /\ calls[c].result = "pending"
                    /\ calls[c].op \in {"create", "recoverTwoStep"}
                   THEN Settled(calls[c], "rejected", ErrCeremony)
                   ELSE calls[c]]
  /\ last' = [Did("clear", i, 0) EXCEPT
                !.sop = IF opts[i].storage THEN "removeItem" ELSE "none",
                !.threw = opts[i].storage /\ ~removeOk]
  /\ UNCHANGED <<env, mounted, provider, opts, rehydrated>>

\* mutant: clear without setError(null)
clearKeepsError(i, removeOk) ==
  /\ mounted[i]
  /\ storage' = IF opts[i].storage /\ removeOk
                  THEN [storage EXCEPT ![opts[i].storageKey] = NULL]
                  ELSE storage
  /\ keypair' = [keypair EXCEPT ![i] = NULL]
  /\ address' = [address EXCEPT ![i] = NULL]
  /\ last' = [Did("clear", i, 0) EXCEPT
                !.sop = IF opts[i].storage THEN "removeItem" ELSE "none",
                !.threw = opts[i].storage /\ ~removeOk]
  /\ UNCHANGED <<env, mounted, provider, opts, error, loading, rehydrated, calls>>

\* clear(): removeOk = storage.removeItem does not throw
clear(i, removeOk) ==
  /\ mounted[i]
  /\ storage' = IF opts[i].storage /\ removeOk
                  THEN [storage EXCEPT ![opts[i].storageKey] = NULL]
                  ELSE storage
  /\ keypair' = [keypair EXCEPT ![i] = NULL]
  /\ address' = [address EXCEPT ![i] = NULL]
  /\ error' = [error EXCEPT ![i] = NoError]
  /\ last' = [Did("clear", i, 0) EXCEPT
                !.sop = IF opts[i].storage THEN "removeItem" ELSE "none",
                !.threw = opts[i].storage /\ ~removeOk]
  /\ UNCHANGED <<env, mounted, provider, opts, loading, rehydrated, calls>>

CallIds == 1..MaxCalls

\* one step of the adapters in I, with sign-and-recover ceremonies that
\* return lists drawn from cands
Step(I, cands) ==
  \/ \E i \in I, o \in Options, ctorThrows \in BOOLEAN,
        getOk \in StorageOutcomes, throwAt \in {"constructor", "getPublicKey"} :
       Mount(i, o, ctorThrows, getOk, throwAt)
  \/ \E i \in I : CreateStart(i)
  \/ \E c \in CallIds, pk \in CreatedKeys, setOk \in StorageOutcomes :
       CreateFulfilled(c, pk, setOk)
  \/ \E c \in CallIds : CreateRejected(c)
  \/ \E i \in I, args \in RecoverArgs : RecoverStart(i, args)
  \/ \E c \in CallIds, cand \in cands : RecoverFirst(c, cand)
  \/ \E c \in CallIds, cand \in cands, setOk \in StorageOutcomes :
       RecoverSecond(c, cand, setOk)
  \/ \E c \in CallIds : RecoverRejected(c)
  \/ \E i \in I, msg \in SignMessages :
       SignStart(i, "signPersonalMessage", msg)
  \/ \E i \in I, tx \in TxBytes : SignStart(i, "signTransaction", tx)
  \/ \E c \in CallIds : SignFulfilled(c)
  \/ \E c \in CallIds : SignRejected(c)
  \/ \E i \in I, removeOk \in StorageOutcomes : clear(i, removeOk)

\* One adapter instance, any host environment, any initial storage content.
Next == Step({1}, FewCandLists)

Spec == Init /\ [][Next]_vars

\* Two adapter instances sharing one storage backend in a browser that
\* supports passkeys.
InitShared ==
  /\ Init
  /\ env.browser /\ env.pkc
  /\ storage[DEFAULT_STORAGE_KEY] \in {NULL, toBase64(pkZ)}

NextShared ==
  \/ \E i \in Instances, o \in Options, ctorThrows \in BOOLEAN,
        getOk \in StorageOutcomes, throwAt \in {"constructor", "getPublicKey"} :
       Mount(i, o, ctorThrows, getOk, throwAt)
  \/ \E i \in Instances : CreateStart(i)
  \/ \E c \in CallIds, pk \in CreatedKeys, setOk \in StorageOutcomes :
       CreateFulfilled(c, pk, setOk)
  \/ \E c \in CallIds : CreateRejected(c)
  \/ \E i \in Instances, msg \in SignMessages :
       SignStart(i, "signPersonalMessage", msg)
  \/ \E c \in CallIds : SignFulfilled(c)
  \/ \E c \in CallIds : SignRejected(c)
  \/ \E i \in Instances, removeOk \in StorageOutcomes : clear(i, removeOk)

SpecShared == InitShared /\ [][NextShared]_vars

\* One adapter instance in a supporting browser, with every candidate list
\* of up to MaxCand keys.
InitRecover ==
  /\ Init
  /\ env.browser /\ env.pkc /\ ~env.faulty
  /\ storage[DEFAULT_STORAGE_KEY] = NULL

NoRecoverYet == \A c \in DOMAIN calls : calls[c].op # "recoverTwoStep"

NextRecover ==
  \/ \E o \in Options, ctorThrows \in BOOLEAN,
        throwAt \in {"constructor", "getPublicKey"} :
       Mount(1, o, ctorThrows, TRUE, throwAt)
  \/ CreateStart(1)
  \/ \E c \in CallIds, pk \in CreatedKeys : CreateFulfilled(c, pk, TRUE)
  \/ \E c \in CallIds : CreateRejected(c)
  \/ \E args \in RecoverArgs : NoRecoverYet /\ RecoverStart(1, args)
  \/ \E c \in CallIds, cand \in CandLists : RecoverFirst(c, cand)
  \/ \E c \in CallIds, cand \in CandLists : RecoverSecond(c, cand, TRUE)
  \/ \E c \in CallIds : RecoverRejected(c)
  \/ clear(1, TRUE)

SpecRecover == InitRecover /\ [][NextRecover]_vars

\* ------------------------------------------------------------------ claims
Rejected(c, e) == calls[c].result = "rejected" /\ calls[c].err = e
IsSession(r) == r.op \in {"create", "recoverTwoStep"}

\* C1 (as stated): when the platform credential API is absent, every
\* operation rejects with the Unavailable error and no storage operation and
\* no ceremony happens.
C1_AllOperationsUnavailable ==
  ~supported =>
    /\ last.sop = "none"
    /\ \A c \in DOMAIN calls :
         Rejected(c, ErrUnavailable) /\ calls[c].ceremonies = 0

\* C1 (amended): when the platform credential API is absent, no provider and
\* no keypair ever exist, no ceremony is started, and storage is never read
\* or written; create and recoverTwoStep reject with the Unavailable error,
\* signPersonalMessage and signTransaction reject with the no-keypair error,
\* and clear completes, its removeItem being the only storage access.
C1_Unsupported ==
  ~supported =>
    /\ \A i \in Instances : ~provider[i] /\ keypair[i] = NULL /\ ~loading[i]
    /\ last.sop # "none" => last.act = "clear" /\ last.sop = "removeItem"
    /\ \A c \in DOMAIN calls :
         /\ calls[c].ceremonies = 0
         /\ Rejected(c, IF IsSign(calls[c]) THEN ErrNoKeypair ELSE ErrUnavailable)

\* C1 witness: without the API, a create and a sign call were rejected and a
\* clear then removed the storage key.
C1_Witness ==
  /\ ~supported
  /\ last.act = "clear" /\ last.sop = "removeItem"
  /\ \E c \in DOMAIN calls : calls[c].op = "create" /\ Rejected(c, ErrUnavailable)
  /\ \E c \in DOMAIN calls : IsSign(calls[c]) /\ Rejected(c, ErrNoKeypair)

\* no create() or recoverTwoStep() was called on c's instance before call c
NoSessionCallBefore(c) ==
  \A d \in 1..(c - 1) : calls[d].inst = calls[c].inst => ~IsSession(calls[d])

\* C2 (as stated): a sign call on an adapter on which create / recoverTwoStep
\* was never called rejects with the no-keypair error and starts no ceremony.
C2_SignBeforeAnySession ==
  \A c \in DOMAIN calls :
    IsSign(calls[c]) /\ NoSessionCallBefore(c)
      => Rejected(c, ErrNoKeypair) /\ calls[c].ceremonies = 0

\* C2 (amended): a sign call on an adapter on which create / recoverTwoStep
\* was never called and whose mount-time rehydration loaded no keypair
\* rejects with the no-keypair error and starts no ceremony.
C2_SignWithoutKeypair ==
  \A c \in DOMAIN calls :
    IsSign(calls[c]) /\ NoSessionCallBefore(c) /\ ~rehydrated[calls[c].inst]
      => Rejected(c, ErrNoKeypair) /\ calls[c].ceremonies = 0

\* C2 witness: on an adapter with a provider, a sign call made before any
\* create / recoverTwoStep was rejected for lack of a keypair.
C2_Witness ==
  \E c \in DOMAIN calls :
    /\ IsSign(calls[c]) /\ NoSessionCallBefore(c)
    /\ provider[calls[c].inst] /\ ~rehydrated[calls[c].inst]
    /\ Rejected(c, ErrNoKeypair)

\* the keys of a candidate list, compared by raw bytes
Keys(q) == { q[k] : k \in DOMAIN q }

\* the step just taken got the second candidate list of a recoverTwoStep call
\* and ended the call
BothRecovered == last.act = "recoverSecond"

\* C3 (as stated): with candidate sets A and B, recoverTwoStep resolves to
\* the unique element of A \cap B and rejects with the Ambiguous-recovery
\* error exactly when A \cap B is empty.
C3_UniqueCommonKey ==
  BothRecovered =>
    LET common == Keys(last.possible1) \cap Keys(last.possible2)
    IN /\ Rejected(last.call, ErrAmbiguous) <=> common = {}
       /\ calls[last.call].result = "resolved" => common = {last.ret}

\* C3 (amended): recoverTwoStep resolves to an element of A \cap B, which is
\* the unique element whenever A \cap B has exactly one element, and rejects
\* with the Ambiguous-recovery error exactly when A \cap B is empty.
C3_CommonKey ==
  BothRecovered =>
    LET common == Keys(last.possible1) \cap Keys(last.possible2)
    IN /\ calls[last.call].result \in {"resolved", "rejected"}
       /\ Rejected(last.call, ErrAmbiguous) <=> common = {}
       /\ calls[last.call].result = "resolved" =>
            /\ last.ret \in common
            /\ Cardinality(common) = 1 => common = {last.ret}
            /\ keypair[last.inst] = last.ret

\* C3 witness: candidates {pkX, pkY} and {pkY, pkZ} resolved to pkY.
C3_Witness ==
  /\ BothRecovered
  /\ last.possible1 = <<pkX, pkY>> /\ last.possible2 = <<pkY, pkZ>>
  /\ calls[last.call].result = "resolved" /\ last.ret = pkY
  /\ address[last.inst] = toSuiAddress(pkY)

\* C4: the key recoverTwoStep resolves from (A, B) is the key it would
\* resolve from (B, A), also when A and B share more than one key (NULL
\* stands for the Ambiguous-recovery rejection).
C4_OrderIndependent ==
  BothRecovered =>
    last.ret = findCommonPublicKey(last.possible2, last.possible1)

\* the string stored under instance i's storage key
Stored(i) == storage[opts[i].storageKey]

\* C5 (as stated): after every create() that resolves, the value stored under
\* the storage key is the base64 of the returned keypair's public-key bytes.
C5_CreatePersists ==
  last.act = "createFulfilled" => Stored(last.inst) = toBase64(last.ret)

\* C5 (amended): after every create() that resolves and whose
\* storage.setItem did not throw, the value stored under the storage key is
\* the base64 of the returned keypair's public-key bytes (and decodes to them).
C5_CreatePersistsUnlessWriteFails ==
  last.act = "createFulfilled" /\ ~last.threw =>
    /\ calls[last.call].result = "resolved"
    /\ keypair[last.inst] = last.ret
    /\ Stored(last.inst) = toBase64(last.ret)
    /\ fromBase64(Stored(last.inst)) = [ok |-> TRUE, bytes |-> last.ret]

\* C5 witness: a create() resolved with pkX and storage holds base64(pkX)
\* under the default key.
C5_Witness ==
  /\ last.act = "createFulfilled" /\ last.ret = pkX
  /\ last.sop = "setItem" /\ ~last.threw
  /\ storage[DEFAULT_STORAGE_KEY] = toBase64(pkX)

\* instance i holds a keypair and a create() of its own has resolved
HoldsCreatedKey(i) ==
  /\ keypair[i] # NULL /\ address[i] = toSuiAddress(keypair[i])
  /\ \E c \in DOMAIN calls :
       calls[c].inst = i /\ calls[c].op = "create" /\ calls[c].result = "resolved"

\* C6 (as stated): when an instance that has created a key exists and a
\* second instance mounts with autoLoad on the same storage and key, the
\* second instance gets the first one's address, with no call of its own.
C6_SecondInstanceRehydrates ==
  \A i \in Instances :
    /\ last.act = "mount" /\ last.inst # i /\ opts[last.inst].autoLoad
    /\ opts[last.inst].storageKey = opts[i].storageKey
    /\ HoldsCreatedKey(i)
    => /\ address[last.inst] = address[i]
       /\ \A c \in DOMAIN calls : calls[c].inst # last.inst

\* C6 (amended): ... provided the second instance's provider was constructed,
\* the storage key holds the base64 of the first instance's public key when
\* the second mounts, and the storage read does not throw.
C6_SecondInstanceRehydratesStored ==
  \A i \in Instances :
    /\ last.act = "mount" /\ last.inst # i /\ opts[last.inst].autoLoad
    /\ opts[last.inst].storageKey = opts[i].storageKey
    /\ HoldsCreatedKey(i)
    /\ provider[last.inst] /\ ~last.threw
    /\ Stored(i) = toBase64(keypair[i])
    => /\ address[last.inst] = address[i]
       /\ keypair[last.inst] = keypair[i]
       /\ \A c \in DOMAIN calls : calls[c].inst # last.inst

\* C6 witness: instance 2 has just mounted and holds the address of the key
\* instance 1 created.
C6_Witness ==
  /\ last.act = "mount" /\ last.inst = 2 /\ last.sop = "getItem"
  /\ HoldsCreatedKey(1) /\ keypair[1] = pkX
  /\ address[2] = address[1]
  /\ \A c \in DOMAIN calls : calls[c].inst = 1

\* the session state of instance i is the initial one
Cleared(i) == keypair[i] = NULL /\ address[i] = NULL /\ error[i] = NoError

\* C7 (as stated): after clear(), first or repeated, keypair, address and
\* error are null and the storage key is absent.
C7_ClearResets ==
  last.act = "clear" =>
    /\ Cleared(last.inst)
    /\ opts[last.inst].storage => Stored(last.inst) = NULL

\* C7 (amended): after clear(), first or repeated, keypair, address and error
\* are null, and the storage key is absent unless storage.removeItem threw,
\* in which case the stored value is left as it was; a clear() that follows
\* a clear() changes nothing.
C7_ClearResetsUnlessRemoveFails ==
  [][last'.act = "clear" =>
       /\ keypair'[last'.inst] = NULL /\ address'[last'.inst] = NULL
       /\ error'[last'.inst] = NoError
       /\ opts[last'.inst].storage /\ ~last'.threw =>
            storage'[opts[last'.inst].storageKey] = NULL
       /\ last'.threw => storage' = storage
       /\ UNCHANGED <<calls, loading, mounted, provider, opts>>
       /\ last.act = "clear" /\ last.inst = last'.inst =>
            UNCHANGED <<keypair, address, error>>
            /\ (storage' = storage \/ last.threw)]_vars

\* C7 witness: a session was established, and a clear() has just removed the
\* storage key and reset the state.
C7_Witness ==
  /\ last.act = "clear" /\ last.sop = "removeItem" /\ ~last.threw
  /\ Cleared(last.inst) /\ Stored(last.inst) = NULL
  /\ \E c \in DOMAIN calls :
       /\ calls[c].inst = last.inst /\ IsSession(calls[c])
       /\ calls[c].result = "resolved"

\* C8: a step of a recoverTwoStep call leaves keypair, address and the
\* persisted key as they were unless it is the successful completion; with
\* disjoint candidate sets the completion rejects with the
\* Ambiguous-recovery error.
C8_AmbiguousLeavesSession ==
  [][/\ last'.act \in {"recoverStart", "recoverFirst", "recoverRejected"} =>
          UNCHANGED <<keypair, address, storage>>
     /\ /\ last'.act = "recoverSecond"
        /\ Keys(last'.possible1) \cap Keys(last'.possible2) = {}
        => /\ calls'[last'.call].result = "rejected"
           /\ calls'[last'.call].err = ErrAmbiguous
           /\ UNCHANGED <<keypair, address, storage>>]_vars

\* C8 witness: a recoverTwoStep was rejected as ambiguous while a session
\* with a persisted key was held.
C8_Witness ==
  /\ last.act = "recoverSecond" /\ Rejected(last.call, ErrAmbiguous)
  /\ Keys(last.possible1) # {} /\ Keys(last.possible2) # {}
  /\ keypair[last.inst] # NULL /\ address[last.inst] # NULL
  /\ Stored(last.inst) = toBase64(keypair[last.inst])

\* C9: whenever create() fails, the error state is that failure, the call
\* rejects, and the call stores no keypair, address or persisted key.
C9_CreateFailureRecorded ==
  [][/\ last'.act \in {"createStart", "createRejected"}
     /\ calls'[last'.call].result = "rejected"
     => /\ error'[last'.inst] = calls'[last'.call].err
        /\ UNCHANGED <<keypair, address, storage>>]_vars

\* C10: every failure of create, recoverTwoStep, signPersonalMessage or
\* signTransaction rejects the call and is the adapter's error state.
C10_FailureRecorded ==
  last.call # 0 /\ calls[last.call].result = "rejected" =>
    error[last.inst] = calls[last.call].err

\* the handlers that run the start of an explicit operation
StartActs == {"createStart", "recoverStart", "signStart"}

\* C11 (as stated): once the start of create, recoverTwoStep,
\* signPersonalMessage or signTransaction has run, the error state is null:
\* no error of an earlier operation is still visible.
C11_ErrorClearedAtStart ==
  last.act \in StartActs => error[last.inst] = NoError

\* call c is a create / recoverTwoStep call of instance i that is in flight
InFlight(i, c) ==
  c \in DOMAIN calls /\ calls[c].inst = i /\ IsSession(calls[c]) /\ Pending(c)

\* C12: in every reachable state, loading = true implies that a create() or
\* recoverTwoStep() call of the instance has started and not yet ended.
C12_LoadingImpliesInFlight ==
  \A i \in Instances : loading[i] => \E c \in DOMAIN calls : InFlight(i, c)

\* C12 witness: loading is true while one create / recoverTwoStep call has
\* already ended and another one is in flight.
C12_Witness ==
  \E i \in Instances :
    /\ loading[i]
    /\ \E c \in DOMAIN calls : InFlight(i, c)
    /\ \E d \in DOMAIN calls :
         calls[d].inst = i /\ IsSession(calls[d]) /\ ~Pending(d)

\* the create / recoverTwoStep calls of instance i
SessionCalls(i) ==
  { c \in DOMAIN calls : calls[c].inst = i /\ IsSession(calls[c]) }

\* c is the most recently started create / recoverTwoStep call of instance i
LastStarted(i, c) ==
  c \in SessionCalls(i) /\ \A d \in SessionCalls(i) : d <= c

LoadingFalseAfterLastStarted ==
  \A i \in Instances :
    loading[i] => \A c \in DOMAIN calls : LastStarted(i, c) => Pending(c)

C14_RehydrateNeverSurfaces ==
  \A i \in Instances :
    /\ last.act = "mount" /\ last.inst = i =>
         mounted[i] /\ error[i] = NoError /\ ~loading[i]
    /\ error[i] # NoError => \E c \in SessionCalls(i) : Rejected(c, error[i])

\* C14 witness: the instance has just mounted over a throwing storage read;
\* no keypair was loaded and the error state is null.
C14_Witness ==
  /\ last.act = "mount" /\ last.sop = "getItem" /\ last.threw
  /\ Stored(last.inst) # NULL
  /\ keypair[last.inst] = NULL /\ error[last.inst] = NoError

\* C15: when the ceremony of create() / recoverTwoStep() has succeeded and
\* storage.setItem throws, the call resolves with the keypair and its
\* address, both are held in memory, storage keeps its value and the error
\* state is not touched (it is null when no other call of the instance has
\* failed meanwhile).
C15_WriteFailureSwallowed ==
  [][/\ last'.act \in {"createFulfilled", "recoverSecond"}
     /\ last'.sop = "setItem" /\ last'.threw
     => /\ calls'[last'.call].result = "resolved"
        /\ last'.ret # NULL
        /\ keypair'[last'.inst] = last'.ret
        /\ address'[last'.inst] = toSuiAddress(last'.ret)
        /\ UNCHANGED <<error, storage>>
        /\ SessionCalls(last'.inst) = {last'.call} =>
             error'[last'.inst] = NoError]_vars

\* C15 witness: a create() has just resolved with pkX although the storage
\* write threw; the keypair is held and the error state is null.
C15_Witness ==
  /\ last.act = "createFulfilled" /\ last.sop = "setItem" /\ last.threw
  /\ calls[last.call].result = "resolved" /\ last.ret = pkX
  /\ keypair[last.inst] = pkX /\ address[last.inst] = toSuiAddress(pkX)
  /\ error[last.inst] = NoError
  /\ Stored(last.inst) # toBase64(pkX)

\* the recoverTwoStep calls after the step
RecoverCalls == { c \in DOMAIN calls : calls[c].op = "recoverTwoStep" }

\* C16: within a recoverTwoStep call at most one ceremony is in flight at a
\* time: while the first is awaited the second has not been started; the
\* second is started only by the step in which the first one delivers its
\* candidates; a call whose first ceremony rejects ends having started one
\* ceremony only.
C16_CeremoniesSequential ==
  [][/\ \A c \in RecoverCalls' :
          /\ calls'[c].pc = "ceremony" => calls'[c].ceremonies = 1
          /\ calls'[c].pc = "ceremony2" => calls'[c].ceremonies = 2
          /\ calls'[c].ceremonies = 2
               /\ (c \notin DOMAIN calls \/ calls[c].ceremonies < 2)
             => /\ last'.act = "recoverFirst" /\ last'.call = c
                /\ c \in DOMAIN calls /\ calls[c].pc = "ceremony"
          /\ c \in DOMAIN calls /\ ~Pending(c) => calls'[c] = calls[c]
     /\ last'.act = "recoverRejected" /\ calls[last'.call].pc = "ceremony"
        => /\ calls'[last'.call].ceremonies = 1
           /\ calls'[last'.call].result = "rejected"]_vars

\* C16 witness: the first ceremony of a recoverTwoStep call has just
\* rejected; the call ended without having started the second.
C16_Witness ==
  /\ last.act = "recoverRejected"
  /\ Rejected(last.call, ErrCeremony)
  /\ calls[last.call].ceremonies = 1

\* C11 (amended): once the start of create() or recoverTwoStep() has run,
\* the error state is null, whatever an earlier operation left there.
C11_ErrorClearedAtSessionStart ==
  last.act \in {"createStart", "recoverStart"} => error[last.inst] = NoError

\* C11 witness: a create / recoverTwoStep call has failed in its ceremony and
\* a later create() has just started; the error state is null again.
C11_Witness ==
  /\ last.act = "createStart" /\ Pending(last.call)
  /\ \E d \in SessionCalls(last.inst) : d < last.call /\ Rejected(d, ErrCeremony)
  /\ error[last.inst] = NoError

\* C17: no step of a signPersonalMessage / signTransaction call, whether the
\* call is rejected at once, resolves or rejects in its ceremony, changes
\* keypair, address, error, loading or the persisted public key.
C17_SignLeavesSession ==
  [][last'.act \in {"signStart", "signFulfilled", "signRejected"} =>
       /\ IsSign(calls'[last'.call])
       /\ UNCHANGED <<keypair, address, error, loading, storage>>]_vars

\* C17 witness: a sign call has just failed in its ceremony while a session
\* and the error of an earlier operation are held; both are still there.
C17_Witness ==
  /\ last.act = "signRejected" /\ Rejected(last.call, ErrCeremony)
  /\ keypair[last.inst] # NULL /\ address[last.inst] # NULL
  /\ error[last.inst] \notin {NoError, ErrCeremony}

\* the `initialised` flag the hook returns
initialised(i) == provider[i]

\* the platform credential API is present but constructing instance i's
\* provider threw
ConstructionThrew(i) == supported /\ mounted[i] /\ ~initialised(i)

\* C18: when the API is present but provider construction throws, the mount
\* completes with supported = true and initialised = false, rehydration does
\* not read storage and loads nothing, and every create() / recoverTwoStep()
\* is rejected with the Unavailable error without a ceremony.
C18_ConstructionFailureAbsorbed ==
  \A i \in Instances :
    ConstructionThrew(i) =>
      /\ last.act = "mount" /\ last.inst = i => last.sop = "none"
      /\ keypair[i] = NULL /\ address[i] = NULL /\ ~rehydrated[i]
      /\ error[i] = NoError /\ ~loading[i]
      /\ \A c \in SessionCalls(i) :
           Rejected(c, ErrUnavailable) /\ calls[c].ceremonies = 0

\* C18 witness: the API is present, construction threw, a storable key was
\* in storage with autoLoad on, and a create() and a recoverTwoStep() were
\* rejected as unavailable.
C18_Witness ==
  /\ ConstructionThrew(1)
  /\ opts[1].storage /\ opts[1].autoLoad /\ Stored(1) = toBase64(pkZ)
  /\ \E c \in DOMAIN calls : calls[c].op = "create" /\ Rejected(c, ErrUnavailable)
  /\ \E c \in DOMAIN calls :
       calls[c].op = "recoverTwoStep" /\ Rejected(c, ErrUnavailable)

\* ------------------------------------------------- termination of calls
\* candidate lists with and without a common key
LiveCandLists == { <<pkX, pkY>>, <<pkZ>> }

\* the step in which a ceremony awaited by create / recoverTwoStep call c
\* completes or rejects
CeremonyEnds(c) ==
  \/ \E pk \in CreatedKeys : CreateFulfilled(c, pk, TRUE)
  \/ CreateRejected(c)
  \/ \E cand \in LiveCandLists : RecoverFirst(c, cand)
  \/ \E cand \in LiveCandLists : RecoverSecond(c, cand, TRUE)
  \/ RecoverRejected(c)

\* One adapter instance in a supporting browser; create and recoverTwoStep
\* calls in any interleaving.
InitLive ==
  /\ Init
  /\ env.browser /\ env.pkc /\ ~env.faulty
  /\ storage[DEFAULT_STORAGE_KEY] = NULL

NextLive ==
  \/ \E o \in Options, ctorThrows \in BOOLEAN :
       Mount(1, o, ctorThrows, TRUE, "constructor")
  \/ CreateStart(1)
  \/ RecoverStart(1, <<Undefined, Undefined>>)
  \/ \E c \in CallIds : CeremonyEnds(c)
  \/ clear(1, TRUE)

\* every ceremony that was started eventually completes or rejects
CeremoniesEnd == \A c \in CallIds : WF_vars(CeremonyEnds(c))

SpecLive == InitLive /\ [][NextLive]_vars /\ CeremoniesEnd

\* no create / recoverTwoStep call of instance i is in flight
AllSettled(i) == \A c \in SessionCalls(i) : ~Pending(c)

\* C19: provided every started ceremony eventually completes or rejects,
\* every create() / recoverTwoStep() call eventually settles, and whenever
\* all started calls have settled loading is false.
C19_BusyIsLeft ==
  /\ \A c \in CallIds : (c \in DOMAIN calls /\ Pending(c)) ~> ~Pending(c)
  /\ [](\A i \in Instances : AllSettled(i) => ~loading[i])

\* C19 witness: two calls overlapped (the first-started one has just ended,
\* after the second had started), both have settled and loading is false.
C19_Witness ==
  /\ Len(calls) >= 2 /\ last.call = 1
  /\ IsSession(calls[1]) /\ IsSession(calls[2])
  /\ AllSettled(1) /\ calls[1].ceremonies > 0 /\ calls[2].ceremonies > 0
  /\ ~loading[1]

\* C20: in every reachable state the keypair is null exactly when the
\* address is null, and when both are set the address is the one derived
\* from the keypair's public key.
C20_KeypairIffAddress ==
  \A i \in Instances :
    /\ keypair[i] = NULL <=> address[i] = NULL
    /\ keypair[i] # NULL => address[i] = toSuiAddress(keypair[i])

\* C21: clear() leaves every call as it is, the ones in flight included;
\* and when the ceremony of a create() / recoverTwoStep() call succeeds, also
\* after a clear() that ran while the call was in flight, the completion
\* stores the keypair and its address and writes the public key to storage
\* (the stored value is its base64 unless that write throws), so the
\* instance is no longer in the cleared state.
C21_ClearDoesNotCancel ==
  [][/\ last'.act = "clear" => UNCHANGED <<calls, loading>>
     /\ /\ last'.act \in {"createFulfilled", "recoverSecond"}
        /\ calls'[last'.call].result = "resolved"
        => /\ last'.ret # NULL
           /\ keypair'[last'.inst] = last'.ret
           /\ address'[last'.inst] = toSuiAddress(last'.ret)
           /\ last'.sop = "setItem"
           /\ ~last'.threw =>
                storage'[opts[last'.inst].storageKey] = toBase64(last'.ret)]_vars

\* C21 witness: a session was held and a create() was in flight when clear()
\* ran; the state is cleared, the storage key is gone and the call is still
\* in flight, its ceremony still to complete.
C21_Witness ==
  /\ last.act = "clear" /\ last.sop = "removeItem" /\ ~last.threw
  /\ rehydrated[last.inst]
  /\ Cleared(last.inst) /\ Stored(last.inst) = NULL
  /\ \E c \in DOMAIN calls :
       /\ InFlight(last.inst, c) /\ calls[c].op = "create"
       /\ calls[c].pc = "ceremony"
  /\ loading[last.inst]

\* C22: on a storage backend whose operations always succeed, in every
\* state reached by any interleaving of create(), recoverTwoStep() and
\* clear() calls (and sign calls), whenever the keypair is non-null the value
\* stored under the storage key is the base64 of that keypair's public key.
C22_KeypairMatchesStored ==
  ~env.faulty =>
    \A i \in {1} :
      keypair[i] # NULL =>
        opts[i].storage /\ Stored(i) = toBase64(keypair[i])

\* C22 witness: on a reliable backend two calls overlapped and both
\* resolved, the first-started one last; keypair and stored key are those of
\* the call that completed last.
C22_Witness ==
  /\ ~env.faulty
  /\ Len(calls) >= 2 /\ last.call = 1
  /\ IsSession(calls[1]) /\ IsSession(calls[2])
  /\ calls[1].result = "resolved" /\ calls[2].result = "resolved"
  /\ keypair[1] = last.ret /\ last.ret # NULL
  /\ Stored(1) = toBase64(last.ret)

====
